---- MODULE Spec2Model ----
(***************************************************************************)
(* Roles, permissions and team membership of one Proyecto of sgp.          *)
(*                                                                         *)
(* The model follows a single Proyecto: every form of src/sgp/forms.py is  *)
(* bound to one project (proyecto_actual / proyecto_id) and only reads and *)
(* writes the Role and Participa rows of that project.                     *)
(*                                                                         *)
(*   roles     the Role rows of the project: primary key -> nombre and the *)
(*             set of project permissions granted to the role             *)
(*   participa the Participa rows of the project: one row binds a user to  *)
(*             a role                                                      *)
(*   llamadas  how many times crear_roles_predeterminados ran on the       *)
(*             project (history variable; the code keeps no such flag)     *)
(*   last      the operation that produced the current state, with its     *)
(*             inputs and the facts of the state it ran in (history        *)
(*             variable)                                                   *)
(*   peticiones the asignar_rol calls of concurrent requests, each with    *)
(*             its position in the call                                    *)
(*   candado   the users whose (user, project) membership key is locked    *)
(*             by an asignar_rol call                                      *)
(***************************************************************************)
EXTENDS Integers, FiniteSets, Sequences, TLC

VARIABLES roles, participa, llamadas, last, peticiones, candado

vars == <<roles, participa, llamadas, last, peticiones, candado>>

\* ---------------------------------------------------------------- bounds
\* roles created through a RoleForm without instance
MaxRolesNuevos == 1
\* calls of crear_roles_predeterminados on the project
MaxLlamadas == 2
\* requests that run asignar_rol at the same time
MaxPeticiones == 2

Peticiones == 1..MaxPeticiones

\* the user accounts
Usuarios == {"alice", "bob"}

\* a crear_roles_predeterminados call creates four roles
RolesPorLlamada == 4

\* "no role": rol_actual of a user outside the team, an empty `rol` field
NoRol == 0

\* ------------------------------------------------------------ permissions
\* get_perms_for_model(Proyecto).exclude(codename='vista'), in field order
PermisosProyecto ==
    <<"administrar_equipo", "gestionar_proyecto", "pila_producto", "desarrollo">>

Permisos == {PermisosProyecto[i] : i \in 1..Len(PermisosProyecto)}

\* the permission sets a RoleForm is submitted with
Deseados ==
    { {"gestionar_proyecto", "desarrollo"},
      {"administrar_equipo", "pila_producto"} }

\* the names a new role is created with
NombresNuevos == {"Scrum master"}

\* ------------------------------------------------------------------ Role
\* Role.asignar_permiso: grant, idempotent
asignar_permiso(rs, r, perm) ==
    [rs EXCEPT ![r].permisos = @ \cup {perm}]

\* Role.quitar_permiso: revoke, idempotent
quitar_permiso(rs, r, perm) ==
    [rs EXCEPT ![r].permisos = @ \ {perm}]

\* primary key of a new Role row
NuevoId(rs) ==
    IF DOMAIN rs = {} THEN 1
    ELSE 1 + (CHOOSE i \in DOMAIN rs : \A j \in DOMAIN rs : j <= i)

\* role_set.create(name=...) followed by the assign_perm calls on the new role
CrearRol(rs, nombre, perms) ==
    LET id == NuevoId(rs)
    IN  [i \in DOMAIN rs \cup {id} |->
            IF i = id THEN [nombre |-> nombre, permisos |-> perms] ELSE rs[i]]

\* default roles in which the Product owner also administers the team
crear_roles_predeterminados_dos_admin(rs) ==
    LET r1 == CrearRol(rs, "Scrum master", {"administrar_equipo", "gestionar_proyecto"})
        r2 == CrearRol(r1, "Product owner", {"administrar_equipo", "pila_producto"})
        r3 == CrearRol(r2, "Desarrolador", {"desarrollo"})
    IN  CrearRol(r3, "Interesado", {})

\* Proyecto.crear_roles_predeterminados
crear_roles_predeterminados(rs) ==
    LET r1 == CrearRol(rs, "Scrum master", {"administrar_equipo", "gestionar_proyecto"})
        r2 == CrearRol(r1, "Product owner", {"pila_producto"})
        r3 == CrearRol(r2, "Desarrolador", {"desarrollo"})
    IN  CrearRol(r3, "Interesado", {})

SinRoles == [i \in {} |-> [nombre |-> "", permisos |-> {}]]

\* ------------------------------------------------------------- Participa
Miembros(ps) == {m.usuario : m \in ps}

RolesDe(ps, u) == {m.rol : m \in {x \in ps : x.usuario = u}}

\* the acting user's role in the project, handed to RoleForm as rol_actual
RolActual(ps, u) ==
    IF RolesDe(ps, u) = {} THEN NoRol ELSE CHOOSE r \in RolesDe(ps, u) : TRUE

\* the roles of the project that carry a name
RolesConNombre(rs, nombre) == {r \in DOMAIN rs : rs[r].nombre = nombre}

\* Proyecto.asignar_rol(user, nombre): the name must denote one Role of the
\* project; a user without Participa row gets one, an existing row is updated
asignar_rol(rs, ps, u, nombre) ==
    IF Cardinality(RolesConNombre(rs, nombre)) # 1
    THEN ps
    ELSE LET r == CHOOSE x \in RolesConNombre(rs, nombre) : TRUE
         IN  IF u \in Miembros(ps)
             THEN {IF m.usuario = u THEN [m EXCEPT !.rol = r] ELSE m : m \in ps}
             ELSE ps \cup {[usuario |-> u, rol |-> r]}

\* Proyecto.quitar_rol(user): drops the user's Participa row, if any
quitar_rol(ps, u) == {m \in ps : m.usuario # u}

\* -------------------------------------------------------------- RoleForm
\* RoleForm.__init__ and field cleaning: one boolean per permission; the
\* administrar_equipo field is disabled on the acting user's own role, and a
\* disabled field is cleaned to its initial value (the role's current grant)
RoleForm_cleaned_data(rs, r, rol_actual, deseado) ==
    [p \in Permisos |->
        IF p = "administrar_equipo" /\ r = rol_actual
        THEN p \in rs[r].permisos
        ELSE p \in deseado]

\* the loop without its else branch: permissions are granted, none revoked
RECURSIVE AplicarPermisos_sin_quitar(_, _, _, _)
AplicarPermisos_sin_quitar(rs, r, cleaned, i) ==
    IF i > Len(PermisosProyecto)
    THEN rs
    ELSE LET perm == PermisosProyecto[i]
         IN  AplicarPermisos_sin_quitar(
                 IF cleaned[perm] THEN asignar_permiso(rs, r, perm) ELSE rs,
                 r, cleaned, i + 1)

\* the loop of RoleForm.save over the permissions, from position i on
RECURSIVE AplicarPermisos(_, _, _, _)
AplicarPermisos(rs, r, cleaned, i) ==
    IF i > Len(PermisosProyecto)
    THEN rs
    ELSE LET perm == PermisosProyecto[i]
         IN  AplicarPermisos(
                 IF cleaned[perm] THEN asignar_permiso(rs, r, perm)
                                  ELSE quitar_permiso(rs, r, perm),
                 r, cleaned, i + 1)

\* save that forces administrar_equipo on every role, not only rol_actual
RoleForm_save_siempre(rs, r, rol_actual, cleaned) ==
    AplicarPermisos(rs, r, [cleaned EXCEPT !["administrar_equipo"] = TRUE], 1)

\* RoleForm.save on an existing role (instance.pk set)
RoleForm_save(rs, r, rol_actual, cleaned) ==
    LET cd == IF r = rol_actual
              THEN [cleaned EXCEPT !["administrar_equipo"] = TRUE]
              ELSE cleaned
    IN  AplicarPermisos(rs, r, cd, 1)

\* RoleForm.save on a new role: the row is created, then the marked
\* permissions are added
RoleForm_save_nuevo(rs, nombre, cleaned) ==
    CrearRol(rs, nombre, {p \in Permisos : cleaned[p]})

\* ------------------------------------------------------------- UserRoleForm
\* the queryset filtered by the wrong permission on the user's own record
UserRoleForm_queryset_otro_permiso(rs, instance, usuario_actual) ==
    IF instance = usuario_actual
    THEN {r \in DOMAIN rs : "gestionar_proyecto" \in rs[r].permisos}
    ELSE DOMAIN rs

\* the queryset without the branch for the acting user's own record
UserRoleForm_queryset_todos(rs, instance, usuario_actual) == DOMAIN rs

\* the queryset of the `rol` field built by UserRoleForm.__init__
UserRoleForm_queryset(rs, instance, usuario_actual) ==
    IF instance = usuario_actual
    THEN {r \in DOMAIN rs : "administrar_equipo" \in rs[r].permisos}
    ELSE DOMAIN rs

\* UserRoleForm.clean: a form marked `borrar` takes the user off the team
UserRoleForm_clean(ps, instance, borrar) ==
    IF borrar THEN quitar_rol(ps, instance) ELSE ps

\* save that creates a Participa row itself instead of calling asignar_rol
UserRoleForm_save_crea(rs, ps, instance, rol) ==
    IF rol # NoRol THEN ps \cup {[usuario |-> instance, rol |-> rol]} ELSE ps

\* UserRoleForm.save: assigns the selected role, by its name
UserRoleForm_save(rs, ps, instance, rol) ==
    IF rol # NoRol THEN asignar_rol(rs, ps, instance, rs[rol].nombre) ELSE ps

\* --------------------------------------------------------- AgregarMiembroForm
\* the queryset of the `usuarios` field: users outside the team
AgregarMiembroForm_usuarios(ps) == Usuarios \ Miembros(ps)

\* AgregarMiembroForm.save
AgregarMiembroForm_save(rs, ps, usuario, rol) ==
    asignar_rol(rs, ps, usuario, rs[rol].nombre)

\* ------------------------------------------------------------------ state
NoOp == [op |-> "init"]

\* a project right after its creation: the default roles exist, the team is
\* empty
Libre == [pc |-> "libre", usuario |-> "", nombre |-> "", rol |-> NoRol, existe |-> FALSE]

SinPeticiones == [i \in Peticiones |-> Libre]

Init ==
    /\ roles = crear_roles_predeterminados(SinRoles)
    /\ participa = {}
    /\ llamadas = 1
    /\ last = NoOp
    /\ peticiones = SinPeticiones
    /\ candado = {}

\* a RoleForm for the existing role r is submitted by `actor`
EditarRol(actor, r, deseado) ==
    LET ra == RolActual(participa, actor)
        cd == RoleForm_cleaned_data(roles, r, ra, deseado)
    IN  /\ r \in DOMAIN roles
        /\ roles' = RoleForm_save(roles, r, ra, cd)
        /\ last' = [op |-> "RoleForm.save", rol |-> r, deseado |-> deseado,
                    propio |-> (r = ra),
                    tenia |-> ("administrar_equipo" \in roles[r].permisos)]
        /\ UNCHANGED <<participa, llamadas, peticiones, candado>>

\* the number of roles that a RoleForm created: a crear_roles_predeterminados
\* call that goes through leaves four roles, one of them named 'Interesado',
\* a name that no form of the model submits
RolesNuevos(rs) ==
    Cardinality(DOMAIN rs)
        - RolesPorLlamada * Cardinality(RolesConNombre(rs, "Interesado"))

\* a RoleForm without instance is submitted: a new role of the project
CrearRolNuevo(nombre, deseado) ==
    LET cd == [p \in Permisos |-> p \in deseado]
    IN  /\ RolesNuevos(roles) < MaxRolesNuevos
        /\ roles' = RoleForm_save_nuevo(roles, nombre, cd)
        /\ last' = [op |-> "RoleForm.save nuevo", rol |-> NuevoId(roles)]
        /\ UNCHANGED <<participa, llamadas, peticiones, candado>>

\* deleteRole without the check for Participa rows
EliminarRol_sin_control(r) ==
    /\ r \in DOMAIN roles
    /\ roles' = [i \in DOMAIN roles \ {r} |-> roles[i]]
    /\ last' = [op |-> "deleteRole", rol |-> r, error |-> "none"]
    /\ UNCHANGED <<participa, llamadas, peticiones, candado>>

\* deleteRole: refused while a Participa row references the role
EliminarRol(r) ==
    /\ r \in DOMAIN roles
    /\ IF \E m \in participa : m.rol = r
       THEN /\ UNCHANGED roles
            /\ last' = [op |-> "deleteRole", rol |-> r, error |-> "RoleInUse"]
       ELSE /\ roles' = [i \in DOMAIN roles \ {r} |-> roles[i]]
            /\ last' = [op |-> "deleteRole", rol |-> r, error |-> "none"]
    /\ UNCHANGED <<participa, llamadas, peticiones, candado>>

\* an AgregarMiembroForm is submitted: user and role come from its querysets
AgregarMiembro(u, r) ==
    /\ u \in AgregarMiembroForm_usuarios(participa)
    /\ r \in DOMAIN roles
    /\ participa' = AgregarMiembroForm_save(roles, participa, u, r)
    /\ last' = [op |-> "AgregarMiembroForm.save", usuario |-> u, rol |-> r]
    /\ UNCHANGED <<roles, llamadas, peticiones, candado>>

\* a UserRoleForm for team member u is submitted by `actor`: clean, then save.
\* rol = NoRol is a submission without a valid choice in the `rol` field:
\* cleaned_data has no 'rol' and save assigns nothing.
EditarMiembro(actor, u, rol, borrar) ==
    /\ u \in Miembros(participa)
    /\ rol \in UserRoleForm_queryset(roles, u, actor) \cup {NoRol}
    /\ LET limpio == UserRoleForm_clean(participa, u, borrar)
       IN  participa' = UserRoleForm_save(roles, limpio, u, rol)
    /\ last' = [op |-> "UserRoleForm.save", propio |-> (actor = u),
                usuario |-> u, rol |-> rol, borrar |-> borrar,
                otro |-> (RolesDe(participa, u) # {rol})]
    /\ UNCHANGED <<roles, llamadas, peticiones, candado>>

\* crear_roles_predeterminados is called on the project.  The method has no
\* guard of its own.  What a call on a project that already has a role named
\* 'Scrum master' does depends on the Role table: with Role a Group subclass
\* (models.py) the name is unique and the first create raises IntegrityError
\* before any row is written; with Role carrying its own `nombre` (the Role
\* that forms.py uses) the four creates go through.
CrearRolesPredeterminados ==
    /\ llamadas < MaxLlamadas
    /\ \/ /\ roles' = crear_roles_predeterminados(roles)
          /\ last' = [op |-> "crear_roles_predeterminados",
                      antes |-> DOMAIN roles, error |-> "none"]
       \/ /\ RolesConNombre(roles, "Scrum master") # {}
          /\ roles' = roles
          /\ last' = [op |-> "crear_roles_predeterminados",
                      antes |-> DOMAIN roles, error |-> "IntegrityError"]
    /\ llamadas' = llamadas + 1
    /\ UNCHANGED <<participa, peticiones, candado>>

Next ==
    \/ \E actor \in Usuarios, r \in DOMAIN roles, d \in Deseados : EditarRol(actor, r, d)
    \/ \E r \in DOMAIN roles : EliminarRol(r)
    \/ \E u \in Usuarios, r \in DOMAIN roles : AgregarMiembro(u, r)
    \/ \E actor \in Usuarios, u \in Usuarios, r \in DOMAIN roles \cup {NoRol}, b \in BOOLEAN :
          EditarMiembro(actor, u, r, b)

Spec == Init /\ [][Next]_vars

\* a project before its default roles exist, and the calls that create them
InitBoot ==
    /\ roles = SinRoles
    /\ participa = {}
    /\ llamadas = 0
    /\ last = NoOp
    /\ peticiones = SinPeticiones
    /\ candado = {}

NextBoot ==
    \/ CrearRolesPredeterminados
    \/ \E n \in NombresNuevos, d \in Deseados : CrearRolNuevo(n, d)
    \/ \E u \in Usuarios, r \in DOMAIN roles : AgregarMiembro(u, r)
    \/ \E actor \in Usuarios, u \in Usuarios, r \in DOMAIN roles \cup {NoRol}, b \in BOOLEAN :
          EditarMiembro(actor, u, r, b)

SpecBoot == InitBoot /\ [][NextBoot]_vars

\* ------------------------------------------------- concurrent asignar_rol
\* The steps of one asignar_rol call when several requests run at once: the
\* call locks the (user, project) key, reads the user's Participa row, writes
\* (insert or update) and releases the key.

\* request i: a form's save calls asignar_rol(u, nombre of r)
Llamar(i, u, r) ==
    /\ peticiones[i].pc = "libre"
    /\ r \in DOMAIN roles
    /\ peticiones' = [peticiones EXCEPT ![i] =
            [pc |-> "bloquear", usuario |-> u, nombre |-> roles[r].nombre,
             rol |-> NoRol, existe |-> FALSE]]
    /\ last' = [op |-> "asignar_rol: llamar"]
    /\ UNCHANGED <<roles, participa, llamadas, candado>>

\* a call that goes on without taking the lock
Bloquear_sin_esperar(i) ==
    /\ peticiones[i].pc = "bloquear"
    /\ candado' = candado \cup {peticiones[i].usuario}
    /\ peticiones' = [peticiones EXCEPT ![i].pc = "leer"]
    /\ last' = [op |-> "asignar_rol: bloquear"]
    /\ UNCHANGED <<roles, participa, llamadas>>

\* request i takes the lock of its user's key; it waits while another holds it
Bloquear(i) ==
    /\ peticiones[i].pc = "bloquear"
    /\ peticiones[i].usuario \notin candado
    /\ candado' = candado \cup {peticiones[i].usuario}
    /\ peticiones' = [peticiones EXCEPT ![i].pc = "leer"]
    /\ last' = [op |-> "asignar_rol: bloquear"]
    /\ UNCHANGED <<roles, participa, llamadas>>

\* request i resolves the role name and reads whether the user has a row; a
\* name that denotes no single role ends the call
Leer(i) ==
    LET p == peticiones[i]
        rs == RolesConNombre(roles, p.nombre)
    IN  /\ p.pc = "leer"
        /\ IF Cardinality(rs) # 1
           THEN /\ peticiones' = [peticiones EXCEPT ![i] = Libre]
                /\ candado' = candado \ {p.usuario}
           ELSE /\ peticiones' = [peticiones EXCEPT ![i].pc = "escribir",
                                     ![i].rol = CHOOSE x \in rs : TRUE,
                                     ![i].existe = (p.usuario \in Miembros(participa))]
                /\ UNCHANGED candado
        /\ last' = [op |-> "asignar_rol: leer"]
        /\ UNCHANGED <<roles, participa, llamadas>>

\* request i writes what its read decided (update the row, or insert one)
\* and releases the lock
Escribir(i) ==
    LET p == peticiones[i]
    IN  /\ p.pc = "escribir"
        /\ participa' =
              IF p.existe
              THEN {IF m.usuario = p.usuario THEN [m EXCEPT !.rol = p.rol] ELSE m :
                        m \in participa}
              ELSE participa \cup {[usuario |-> p.usuario, rol |-> p.rol]}
        /\ peticiones' = [peticiones EXCEPT ![i] = Libre]
        /\ candado' = candado \ {p.usuario}
        /\ last' = [op |-> "asignar_rol: escribir"]
        /\ UNCHANGED <<roles, llamadas>>

\* a request takes user u off the team (quitar_rol); the delete waits for a
\* locked key
Quitar(u) ==
    /\ u \in Miembros(participa)
    /\ u \notin candado
    /\ participa' = quitar_rol(participa, u)
    /\ last' = [op |-> "quitar_rol"]
    /\ UNCHANGED <<roles, llamadas, peticiones, candado>>

NextConc ==
    \/ \E i \in Peticiones, u \in Usuarios, r \in DOMAIN roles : Llamar(i, u, r)
    \/ \E i \in Peticiones : Bloquear(i)
    \/ \E i \in Peticiones : Leer(i)
    \/ \E i \in Peticiones : Escribir(i)
    \/ \E u \in Usuarios : Quitar(u)

SpecConc == Init /\ [][NextConc]_vars
\* ------------------------------------------------------------- properties
Administra(r) == "administrar_equipo" \in roles[r].permisos

OtrosPermisos == Permisos \ {"administrar_equipo"}

\* the Participa rows of user u
Filas(u) == {m \in participa : m.usuario = u}

\* the last operation was a RoleForm saved by a user on their own role / on
\* another role
EdicionPropia == last.op = "RoleForm.save" /\ last.propio

EdicionAjena == last.op = "RoleForm.save" /\ ~last.propio

\* C1: when a user submits the RoleForm of their own role, the role holds
\* administrar_equipo and the submitted set leaves administrar_equipo out, the
\* role still holds administrar_equipo afterwards, and it holds each of the
\* other three permissions exactly when the submitted set contains it.
C1_CoercionPropia ==
    (EdicionPropia /\ last.tenia /\ "administrar_equipo" \notin last.deseado)
    => /\ "administrar_equipo" \in roles[last.rol].permisos
       /\ \A p \in OtrosPermisos : p \in roles[last.rol].permisos <=> p \in last.deseado

\* a user has just saved their own role, which held administrar_equipo, with a
\* set that left it out and that changed the other permissions of the role
C1_Witness ==
    /\ EdicionPropia /\ last.tenia /\ "administrar_equipo" \notin last.deseado
    /\ roles[last.rol].permisos = last.deseado \cup {"administrar_equipo"}
    /\ \E u \in Usuarios : \E m \in Filas(u) : m.rol = last.rol

\* C5: when a user submits the RoleForm of a role that is not their own (or
\* is in no team), the role's permissions afterwards are exactly the
\* submitted set, administrar_equipo included.
C5_SinCoercionAjena ==
    EdicionAjena => roles[last.rol].permisos = last.deseado

\* a role that held administrar_equipo and that a team member holds has just
\* been saved by somebody else, and has lost administrar_equipo
C5_Witness ==
    /\ EdicionAjena /\ last.tenia
    /\ ~Administra(last.rol)
    /\ \E m \in participa : m.rol = last.rol

\* C10: when a user submits the RoleForm of their own role, the role does not
\* hold administrar_equipo and the submitted set leaves it out, the role does
\* not hold administrar_equipo afterwards.
C10_NuncaOtorga ==
    (EdicionPropia /\ ~last.tenia /\ "administrar_equipo" \notin last.deseado)
    => "administrar_equipo" \notin roles[last.rol].permisos

\* some member of the team holds a role with administrar_equipo
HayAdministrador == \E m \in participa : Administra(m.rol)

PasoProtegido ==
    \/ last'.op = "RoleForm.save" /\ last'.propio
    \/ last'.op = "UserRoleForm.save" /\ last'.propio /\ last'.rol # NoRol
    \/ last'.op = "AgregarMiembroForm.save"
    \/ last'.op = "deleteRole"

Asignacion ==
    \/ last.op = "AgregarMiembroForm.save"
    \/ last.op = "UserRoleForm.save" /\ last.rol # NoRol

\* C3: after any sequence of role assignments through the add-member form
\* and the team role form, every user has at most one Participa row in the
\* project; an assignment of a role whose name denotes that role alone leaves
\* the user, in the team before or not, with one row, which holds that role.
C3_UnaMembresia ==
    /\ \A u \in Usuarios : Cardinality(Filas(u)) <= 1
    /\ (Asignacion /\ Cardinality(RolesConNombre(roles, roles[last.rol].nombre)) = 1)
          => Filas(last.usuario) = {[usuario |-> last.usuario, rol |-> last.rol]}

\* a member of the team has just been assigned another role than the one
\* they had, and has one row, with the new role
C3_Witness ==
    /\ last.op = "UserRoleForm.save" /\ last.rol # NoRol /\ ~last.borrar /\ last.otro
    /\ Filas(last.usuario) = {[usuario |-> last.usuario, rol |-> last.rol]}

\* C6: a call of crear_roles_predeterminados on a project on which it
\* already ran is rejected with AlreadyInitialized and leaves the roles of the
\* project as they were.
C6_UnaSolaVez ==
    (last.op = "crear_roles_predeterminados" /\ llamadas > 1)
    => /\ last.error = "AlreadyInitialized"
       /\ DOMAIN roles = last.antes

\* the role rows as (name, permissions) pairs
RolesComoPares == {<<roles[r].nombre, roles[r].permisos>> : r \in DOMAIN roles}

C8_RolEnUso ==
    /\ \A m \in participa : m.rol \in DOMAIN roles
    /\ last.op = "deleteRole"
          => IF last.error = "RoleInUse"
             THEN last.rol \in DOMAIN roles /\ \E m \in participa : m.rol = last.rol
             ELSE last.rol \notin DOMAIN roles /\ \A m \in participa : m.rol # last.rol

\* the deletion of a role held by a member was refused while the team has
\* members
C8_Witness ==
    /\ last.op = "deleteRole" /\ last.error = "RoleInUse"
    /\ \E m \in participa : m.rol = last.rol

C4_UnaMembresiaConcurrente ==
    /\ \A u \in Usuarios : Cardinality(Filas(u)) <= 1
    /\ \A i \in Peticiones :
          peticiones[i].pc = "escribir"
          => /\ peticiones[i].existe <=> (peticiones[i].usuario \in Miembros(participa))
             /\ peticiones[i].usuario \in candado

\* two calls for the same user are in flight: one has read that the user has
\* no row and is about to insert, the other waits for the lock to assign
\* another role
C4_Witness ==
    \E i, j \in Peticiones :
        /\ i # j
        /\ peticiones[i].usuario = peticiones[j].usuario
        /\ peticiones[i].pc = "escribir" /\ ~peticiones[i].existe
        /\ peticiones[j].pc = "bloquear"
        /\ peticiones[j].nombre # peticiones[i].nombre

\* C11: after a UserRoleForm marked `borrar` and with a role selected in the
\* `rol` field went through clean and save, the user has no Participa row in
\* the project, and the selected role is still a role of the project.
C11_BajaDefinitiva ==
    (last.op = "UserRoleForm.save" /\ last.borrar /\ last.rol # NoRol)
    => /\ Filas(last.usuario) = {}
       /\ last.rol \in DOMAIN roles

====
